---- MODULE Spec2Model ----
(***************************************************************************)
(* File Manager Emulator: the in-memory file tree of FileManagerEmulator   *)
(* (src/src/file_manager_emulator.cpp, second translation unit, lines      *)
(* 733-1457) and its commands md, mf, rm, cp, mv.                          *)
(*                                                                         *)
(* Strings are sequences of one-character strings, so that the path        *)
(* functions (normalizePath, getNodePathInfo, findNodeByPath) work on      *)
(* characters as the code does.  The tree is a heap of FsNode records      *)
(* addressed by node ids (the addresses held by the unique_ptrs), so that  *)
(* sharing between a copy and its original, or a node owned by its own     *)
(* descendant, is a state the model can be in.                             *)
(***************************************************************************)
EXTENDS Naturals, Sequences, FiniteSets, TLC

\* ------------------------------------------------------------------ bounds

\* Number of FsNode objects the heap can hold (the root included).
MaxNodes == 5

\* Length of the longest raw path normalizePath is applied to on its own.
MaxLen == 4

\* ------------------------------------------------------------- characters

pathDelimiter == "/"

Space == " "

isSpace(c) == c = Space

\* The part of s from position i to position j (both included); empty if j < i.
Sub(s, i, j) == IF j < i THEN <<>> ELSE SubSeq(s, i, j)

\* Positions of the character c in s.
Positions(s, c) == {i \in 1..Len(s) : s[i] = c}

Max(S) == CHOOSE x \in S : \A y \in S : y <= x

Min(S) == CHOOSE x \in S : \A y \in S : x <= y

\* helpers.cpp trim: drops leading and trailing whitespace; all spaces -> "".
trim(str) ==
    LET nonSpace == {i \in 1..Len(str) : ~isSpace(str[i])}
    IN  IF nonSpace = {} THEN <<>> ELSE Sub(str, Min(nonSpace), Max(nonSpace))

\* The pieces of s between delimiters: k delimiters give k+1 pieces.
RECURSIVE Pieces(_)
Pieces(s) ==
    LET ds == Positions(s, pathDelimiter)
    IN  IF ds = {} THEN <<s>>
        ELSE LET d == Min(ds)
             IN  <<Sub(s, 1, d - 1)>> \o Pieces(Sub(s, d + 1, Len(s)))

\* Concatenation of "/" + piece for every non-empty trimmed piece of ps.
RECURSIVE JoinTrimmed(_)
JoinTrimmed(ps) ==
    IF ps = <<>> THEN <<>>
    ELSE LET nodeName == trim(Head(ps))
         IN  (IF nodeName # <<>> THEN <<pathDelimiter>> \o nodeName ELSE <<>>)
             \o JoinTrimmed(Tail(ps))

\* C34 mutant: a trailing delimiter is not kept.
normalizePathDroppingTrailing(nodePath) ==
    IF nodePath = <<>> THEN <<pathDelimiter>>
    ELSE IF Positions(nodePath, pathDelimiter) = {}
         THEN <<pathDelimiter>> \o trim(nodePath)
         ELSE LET joined == JoinTrimmed(Pieces(nodePath))
              IN  IF joined = <<>> THEN <<pathDelimiter>> ELSE joined

\* C27 mutant: the piece after the last delimiter is not trimmed.
normalizePathLastUntrimmed(nodePath) ==
    IF nodePath = <<>> THEN <<pathDelimiter>>
    ELSE IF Positions(nodePath, pathDelimiter) = {}
         THEN <<pathDelimiter>> \o trim(nodePath)
         ELSE LET ps    == Pieces(nodePath)
                  front == Sub(ps, 1, Len(ps) - 1)
                  last  == ps[Len(ps)]
              IN  IF last = <<>>
                  THEN JoinTrimmed(front) \o <<pathDelimiter>>
                  ELSE JoinTrimmed(front) \o <<pathDelimiter>> \o last

\* FileManagerEmulator::normalizePath
normalizePath(nodePath) ==
    IF nodePath = <<>> THEN <<pathDelimiter>>
    ELSE IF Positions(nodePath, pathDelimiter) = {}
         THEN <<pathDelimiter>> \o trim(nodePath)
         ELSE LET ps    == Pieces(nodePath)
                  front == Sub(ps, 1, Len(ps) - 1)
                  last  == trim(ps[Len(ps)])
              IN  IF last = <<>>
                  THEN JoinTrimmed(front) \o <<pathDelimiter>>
                  ELSE JoinTrimmed(front) \o <<pathDelimiter>> \o last

\* ------------------------------------------------------------- path info

fileDelimiter == "."

\* helpers.cpp isFilename: the name contains a '.'.
isFilename(filename) == Positions(filename, fileDelimiter) # {}

\* C14 mutant: a trailing delimiter does not make a file reference invalid.
getNodePathInfoTrailingAllowed(normalizedNodeAbsolutePath, requiredNodeType) ==
    IF normalizedNodeAbsolutePath = <<>>
    THEN [path |-> <<pathDelimiter>>, basename |-> <<>>, type |-> "Directory"]
    ELSE LET full == normalizedNodeAbsolutePath
             pathHasTrailingSlash == full[Len(full)] = pathDelimiter
             np    == IF pathHasTrailingSlash THEN Sub(full, 1, Len(full) - 1) ELSE full
             ds    == Positions(np, pathDelimiter)
             pos   == IF ds = {} THEN 0 ELSE Max(ds)
             path0 == IF ds = {} \/ pos = 1 THEN <<pathDelimiter>> ELSE Sub(np, 1, pos - 1)
             base0 == IF ds = {} THEN np ELSE Sub(np, pos + 1, Len(np))
         IN  [path     |-> IF path0 = <<>> THEN <<pathDelimiter>> ELSE path0,
              basename |-> base0,
              type     |-> IF isFilename(base0) THEN "File" ELSE "Directory"]

\* FileManagerEmulator::getNodePathInfo.  requiredNodeType is "Directory",
\* "File" or "Invalid" (the default argument of the declaration).
getNodePathInfo(normalizedNodeAbsolutePath, requiredNodeType) ==
    IF normalizedNodeAbsolutePath = <<>>
    THEN [path |-> <<pathDelimiter>>, basename |-> <<>>, type |-> "Directory"]
    ELSE LET full == normalizedNodeAbsolutePath
             pathHasTrailingSlash == full[Len(full)] = pathDelimiter
             np    == IF pathHasTrailingSlash THEN Sub(full, 1, Len(full) - 1) ELSE full
             ds    == Positions(np, pathDelimiter)
             pos   == IF ds = {} THEN 0 ELSE Max(ds)
             path0 == IF ds = {} \/ pos = 1 THEN <<pathDelimiter>> ELSE Sub(np, 1, pos - 1)
             base0 == IF ds = {} THEN np ELSE Sub(np, pos + 1, Len(np))
             invalid == pathHasTrailingSlash /\ requiredNodeType = "File"
         IN  [path     |-> IF path0 = <<>> THEN <<pathDelimiter>> ELSE path0,
              basename |-> IF invalid THEN base0 \o <<pathDelimiter>> ELSE base0,
              type     |-> IF invalid THEN "Invalid"
                           ELSE IF isFilename(base0) THEN "File" ELSE "Directory"]

\* ------------------------------------------------------------------ heap

\* The null FsNode pointer; node ids are 1..MaxNodes.
nullptr == 0

NodeIds == 1..MaxNodes

\* struct FsNode: name, isDirectory, children (name -> owned child).
FsNode(name, isDirectory, children) ==
    [name |-> name, isDirectory |-> isDirectory, children |-> children]

NoChildren == [k \in {} |-> nullptr]

\* children.contains(key)
contains(h, node, key) == key \in DOMAIN h[node].children

\* children.insert({key, child}): an existing key is kept as it is.
insert(h, node, key, child) ==
    [h EXCEPT ![node].children =
        [k \in DOMAIN @ \cup {key} |-> IF k \in DOMAIN @ THEN @[k] ELSE child]]

\* The map entry is dropped (the pointer it held is handled by the caller).
dropEntry(h, node, key) ==
    [h EXCEPT ![node].children = [k \in DOMAIN @ \ {key} |-> @[k]]]

\* Ids of the objects owned, directly or not, by the ids in S (S included).
RECURSIVE Owned(_, _)
Owned(h, S) ==
    LET next == S \cup UNION {{h[n].children[k] : k \in DOMAIN h[n].children} :
                                 n \in S \cap DOMAIN h}
    IN  IF next = S THEN S ELSE Owned(h, next)

\* Destruction of a unique_ptr<FsNode>: the node and all it owns are freed.
destroy(h, node) == [n \in DOMAIN h \ Owned(h, {node}) |-> h[n]]

FreeIds(h) == NodeIds \ DOMAIN h

Rank(S, x) == Cardinality({y \in S : y < x}) + 1

Nth(S, i) == CHOOSE x \in S : Rank(S, x) = i

\* ------------------------------------------------------------ resolution

Found(node) == [node |-> node, err |-> "None"]

Failed(err) == [node |-> nullptr, err |-> err]

\* C13 mutant: a missing child is passed over, the walk stays where it is.
getChildNodeSkippingMissing(h, node, childName) ==
    IF node = nullptr THEN Failed("NullNode")
    ELSE IF ~h[node].isDirectory THEN Failed("NotADirectory")
    ELSE IF ~contains(h, node, childName) THEN Found(node)
    ELSE Found(h[node].children[childName])

\* FileManagerEmulator::getChildNode
getChildNode(h, node, childName) ==
    IF node = nullptr THEN Failed("NullNode")
    ELSE IF ~h[node].isDirectory THEN Failed("NotADirectory")
    ELSE IF ~contains(h, node, childName) THEN Failed("NotFound")
    ELSE Found(h[node].children[childName])

\* The loop of findNodeByPath: descends through the non-empty pieces.
RECURSIVE Descend(_, _, _)
Descend(h, currentNode, ps) ==
    IF ps = <<>> THEN Found(currentNode)
    ELSE IF Head(ps) = <<>> THEN Descend(h, currentNode, Tail(ps))
    ELSE LET r == getChildNode(h, currentNode, Head(ps))
         IN  IF r.node = nullptr THEN r ELSE Descend(h, r.node, Tail(ps))

\* FileManagerEmulator::findNodeByPath, from the root object rootId.
findNodeByPath(h, rootId, normalizedNodePath) ==
    LET ps == Pieces(normalizedNodePath)
    IN  IF Len(ps) = 1
        THEN IF ps[1] = <<>> THEN Found(rootId) ELSE getChildNode(h, rootId, ps[1])
        ELSE LET r        == Descend(h, rootId, Sub(ps, 1, Len(ps) - 1))
                 nodeName == ps[Len(ps)]
             IN  IF r.node = nullptr THEN r
                 ELSE IF nodeName = <<>> /\ ~h[r.node].isDirectory
                      THEN Failed("InvalidFileReference")
                 ELSE IF nodeName = <<>> THEN r
                 ELSE getChildNode(h, r.node, nodeName)

\* C22 mutant: no path is taken for the root.
isRootDirectoryNever(h, rootId, path, basename) == FALSE

\* FileManagerEmulator::isRootDirectory
isRootDirectory(h, rootId, path, basename) ==
    path = h[rootId].name /\ basename = <<>>

\* -------------------------------------------------------------- commands

\* What a command handler leaves behind: the heap, the returned bool, and
\* the return site taken (the message it logs).
Res(h, ret, out) == [nodes |-> h, ret |-> ret, out |-> out]

\* A handler that needs more FsNode objects than the heap bound allows.
NoMemory(h) == Res(h, FALSE, "NoMemory")

\* new FsNode{...} stored at the lowest free id.
alloc(h, id, node) == [n \in DOMAIN h \cup {id} |-> IF n = id THEN node ELSE h[n]]

\* C30 mutant: the parent is not asked whether it is a directory.
validateNodeCreationUnderFile(h, rootId, requiredNodeType, pathInfo, ignoreIfAlreadyExist) ==
    IF requiredNodeType = "File" /\ pathInfo.type = "Invalid"
    THEN Failed("InvalidFileReference")
    ELSE LET parent == findNodeByPath(h, rootId, pathInfo.path)
         IN  IF parent.node = nullptr THEN parent
             ELSE IF contains(h, parent.node, pathInfo.basename)
                  THEN IF ignoreIfAlreadyExist
                       THEN [node |-> parent.node, err |-> "IgnoredExists"]
                       ELSE Failed("AlreadyExists")
             ELSE parent

\* FileManagerEmulator::validateNodeCreation
validateNodeCreation(h, rootId, requiredNodeType, pathInfo, ignoreIfAlreadyExist) ==
    IF requiredNodeType = "File" /\ pathInfo.type = "Invalid"
    THEN Failed("InvalidFileReference")
    ELSE LET parent == findNodeByPath(h, rootId, pathInfo.path)
         IN  IF parent.node = nullptr THEN parent
             ELSE IF ~h[parent.node].isDirectory THEN Failed("NotADirectory")
             ELSE IF contains(h, parent.node, pathInfo.basename)
                  THEN IF ignoreIfAlreadyExist
                       THEN [node |-> parent.node, err |-> "IgnoredExists"]
                       ELSE Failed("AlreadyExists")
             ELSE parent

\* C9 mutant: md passes ignoreIfAlreadyExist = true, as mf does.
mdIgnoringExisting(h, rootId, dirAbsolutePath) ==
    LET normalizedDirPath == normalizePath(dirAbsolutePath)
        nodePathInfo      == getNodePathInfo(normalizedDirPath, "Directory")
        parent == validateNodeCreation(h, rootId, "Directory", nodePathInfo, TRUE)
    IN  IF parent.node # nullptr
        THEN IF FreeIds(h) = {} THEN NoMemory(h)
             ELSE LET newDir == Min(FreeIds(h))
                      h1 == alloc(h, newDir, FsNode(nodePathInfo.basename, TRUE, NoChildren))
                  IN  Res(insert(h1, parent.node, nodePathInfo.basename, newDir),
                          TRUE, "Created")
        ELSE Res(h, FALSE, parent.err)

\* FileManagerEmulator::md
md(h, rootId, dirAbsolutePath) ==
    LET normalizedDirPath == normalizePath(dirAbsolutePath)
        nodePathInfo      == getNodePathInfo(normalizedDirPath, "Directory")
        parent == validateNodeCreation(h, rootId, "Directory", nodePathInfo, FALSE)
    IN  IF parent.node # nullptr
        THEN IF FreeIds(h) = {} THEN NoMemory(h)
             ELSE LET newDir == Min(FreeIds(h))
                      h1 == alloc(h, newDir, FsNode(nodePathInfo.basename, TRUE, NoChildren))
                  IN  Res(insert(h1, parent.node, nodePathInfo.basename, newDir),
                          TRUE, "Created")
        ELSE Res(h, FALSE, parent.err)

\* C10 mutant: mf does not look whether the name is taken and stores the
\* new file with children[basename] = ..., which replaces what was there.
mfOverwriting(h, rootId, fileAbsolutePath) ==
    LET normalizedFilePath == normalizePath(fileAbsolutePath)
        nodePathInfo       == getNodePathInfo(normalizedFilePath, "File")
        parent == validateNodeCreation(h, rootId, "File", nodePathInfo, TRUE)
    IN  IF parent.node # nullptr
        THEN LET h0 == IF contains(h, parent.node, nodePathInfo.basename)
                       THEN destroy(dropEntry(h, parent.node, nodePathInfo.basename),
                                    h[parent.node].children[nodePathInfo.basename])
                       ELSE h
             IN  IF FreeIds(h0) = {} THEN NoMemory(h)
                 ELSE LET newFile == Min(FreeIds(h0))
                          h1 == alloc(h0, newFile,
                                      FsNode(nodePathInfo.basename, FALSE, NoChildren))
                      IN  Res(insert(h1, parent.node, nodePathInfo.basename, newFile),
                              TRUE, "Created")
        ELSE Res(h, FALSE, parent.err)

\* FileManagerEmulator::mf
mf(h, rootId, fileAbsolutePath) ==
    LET normalizedFilePath == normalizePath(fileAbsolutePath)
        nodePathInfo       == getNodePathInfo(normalizedFilePath, "File")
        parent == validateNodeCreation(h, rootId, "File", nodePathInfo, TRUE)
    IN  IF parent.node # nullptr /\ ~contains(h, parent.node, nodePathInfo.basename)
        THEN IF FreeIds(h) = {} THEN NoMemory(h)
             ELSE LET newFile == Min(FreeIds(h))
                      h1 == alloc(h, newFile, FsNode(nodePathInfo.basename, FALSE, NoChildren))
                  IN  Res(insert(h1, parent.node, nodePathInfo.basename, newFile),
                          TRUE, "Created")
        ELSE Res(h, parent.node # nullptr, parent.err)

\* C16 mutant: rm erases files only; a directory is left where it is and
\* the call still returns true.
rmFilesOnly(h, rootId, absolutePath) ==
    LET normalizedPath == normalizePath(absolutePath)
        nodePathInfo   == getNodePathInfo(normalizedPath, "Invalid")
        parent         == findNodeByPath(h, rootId, nodePathInfo.path)
    IN  IF parent.node # nullptr
        THEN IF contains(h, parent.node, nodePathInfo.basename)
             THEN LET child == h[parent.node].children[nodePathInfo.basename]
                  IN  IF h[child].isDirectory THEN Res(h, TRUE, "Removed")
                      ELSE Res(destroy(dropEntry(h, parent.node, nodePathInfo.basename),
                                       child),
                               TRUE, "Removed")
             ELSE Res(h, FALSE, "NoSuchItem")
        ELSE Res(h, FALSE, parent.err)

\* FileManagerEmulator::rm
rm(h, rootId, absolutePath) ==
    LET normalizedPath == normalizePath(absolutePath)
        nodePathInfo   == getNodePathInfo(normalizedPath, "Invalid")
        parent         == findNodeByPath(h, rootId, nodePathInfo.path)
    IN  IF parent.node # nullptr
        THEN IF contains(h, parent.node, nodePathInfo.basename)
             THEN LET child == h[parent.node].children[nodePathInfo.basename]
                  IN  Res(destroy(dropEntry(h, parent.node, nodePathInfo.basename), child),
                          TRUE, "Removed")
             ELSE Res(h, FALSE, "NoSuchItem")
        ELSE Res(h, FALSE, parent.err)

\* C6 mutant: only the node itself is copied; the copy points at the
\* children of the original.
copyShallow(h, node, newName, m) ==
    [c \in {m[node]} |->
        FsNode(IF newName # <<>> THEN newName ELSE h[node].name,
               h[node].isDirectory, h[node].children)]

\* FsNode::copy: a deep copy of the subtree of node, its root named newName
\* (or as the original when newName is empty), in the free ids given by m.
copy(h, node, newName, m) ==
    [c \in {m[s] : s \in DOMAIN m} |->
        LET s == CHOOSE x \in DOMAIN m : m[x] = c
        IN  FsNode(IF s = node /\ newName # <<>> THEN newName ELSE h[s].name,
                   h[s].isDirectory,
                   [k \in DOMAIN h[s].children |-> m[h[s].children[k]]])]

\* C1 mutant: the name is stored in the destination parent, not in the child.
moveChildRenamingParent(h, parentS, parentD, basenameS, nameAfterTransfer) ==
    LET node == h[parentS].children[basenameS]
        h1   == insert(h, parentD, nameAfterTransfer, node)
        h2   == [h1 EXCEPT ![parentD].name = nameAfterTransfer]
    IN  dropEntry(h2, parentS, basenameS)

\* C20 mutant: the moved child keeps the name it had.
moveChildKeepingName(h, parentS, parentD, basenameS, nameAfterTransfer) ==
    LET node == h[parentS].children[basenameS]
        h1   == insert(h, parentD, basenameS, node)
    IN  IF parentS = parentD THEN h ELSE dropEntry(h1, parentS, basenameS)

\* transferNode, lines 1225-1227: the owned child goes from parentS to
\* parentD under nameAfterTransfer, and its stored name is set to it.
moveChild(h, parentS, parentD, basenameS, nameAfterTransfer) ==
    LET node == h[parentS].children[basenameS]
        h1   == insert(h, parentD, nameAfterTransfer, node)
        h2   == [h1 EXCEPT ![node].name = nameAfterTransfer]
    IN  dropEntry(h2, parentS, basenameS)

\* C33 mutant: the copy keeps the name of the original.
copyChildKeepingName(h, parentS, parentD, basenameS, nameAfterTransfer, m) ==
    LET node == h[parentS].children[basenameS]
        cl   == copy(h, node, <<>>, m)
        h1   == [n \in DOMAIN h \cup DOMAIN cl |-> IF n \in DOMAIN cl THEN cl[n] ELSE h[n]]
    IN  insert(h1, parentD, nameAfterTransfer, m[node])

\* transferNode, lines 1233-1234: a deep copy of the child, made in the free
\* ids m gives, is inserted in parentD under nameAfterTransfer.
copyChild(h, parentS, parentD, basenameS, nameAfterTransfer, m) ==
    LET node == h[parentS].children[basenameS]
        cl   == copy(h, node, nameAfterTransfer, m)
        h1   == [n \in DOMAIN h \cup DOMAIN cl |-> IF n \in DOMAIN cl THEN cl[n] ELSE h[n]]
    IN  insert(h1, parentD, nameAfterTransfer, m[node])

\* C8 mutant: the source is taken out of its parent before the name is
\* found to be taken.
nameTakenAfterDetach(h, parentS, basenameS, ignoreIfAlreadyExist) ==
    IF ignoreIfAlreadyExist THEN Res(h, TRUE, "IgnoredExists")
    ELSE Res(dropEntry(h, parentS, basenameS), FALSE, "AlreadyExists")

\* transferNode, lines 1240-1257: the destination parent already has a child
\* with the name; nothing is done.
nameTaken(h, parentS, basenameS, ignoreIfAlreadyExist) ==
    IF ignoreIfAlreadyExist THEN Res(h, TRUE, "IgnoredExists")
    ELSE Res(h, FALSE, "AlreadyExists")

\* FileManagerEmulator::transferNode
transferNode(h, parentS, parentD, basenameS, basenameD, ignoreIfAlreadyExist, transferMode) ==
    LET nameAfterTransfer == IF basenameD = <<>> THEN basenameS ELSE basenameD
    IN  IF ~h[parentD].isDirectory THEN Res(h, FALSE, "DestinationNotADirectory")
        ELSE IF ~contains(h, parentD, nameAfterTransfer)
        THEN IF transferMode = "Move"
             THEN Res(moveChild(h, parentS, parentD, basenameS, nameAfterTransfer),
                      TRUE, "Moved")
             ELSE LET src  == Owned(h, {h[parentS].children[basenameS]})
                      free == FreeIds(h)
                  IN  IF Cardinality(free) < Cardinality(src) THEN NoMemory(h)
                      ELSE LET m == [x \in src |-> Nth(free, Rank(src, x))]
                           IN  Res(copyChild(h, parentS, parentD, basenameS,
                                             nameAfterTransfer, m),
                                   TRUE, "Copied")
        ELSE nameTaken(h, parentS, basenameS, ignoreIfAlreadyExist)

\* destination.starts_with(source)
starts_with(str, prefix) ==
    Len(prefix) <= Len(str) /\ Sub(str, 1, Len(prefix)) = prefix

\* C31 mutant: the character after the source in the destination is not
\* looked at.
isOwnSubdirectoryByPrefix(source, destination) ==
    /\ starts_with(destination, source)
    /\ Len(destination) > Len(source)

\* The self-containment test of validateAndTransferNode.
isOwnSubdirectory(source, destination) ==
    /\ starts_with(destination, source)
    /\ Len(destination) > Len(source)
    /\ destination[Len(source) + 1] = pathDelimiter

\* C3 mutant: the test for one and the same node is left out.
isSameNodeNever(pathS, basenameS, pathD, basenameD, destinationIsRoot) == FALSE

\* validateAndTransferNode, line 1323: source and destination are one node.
isSameNode(pathS, basenameS, pathD, basenameD, destinationIsRoot) ==
    \/ (pathS = pathD /\ basenameS = basenameD)
    \/ (pathS = <<pathDelimiter>> /\ destinationIsRoot)

\* C5 mutant: a name collision is ignored for directories too.
ignoreIfAlreadyExistAlways(sourceIsDir) == TRUE

\* validateAndTransferNode, line 1381: files ignore a name collision.
ignoreIfAlreadyExistFor(sourceIsDir) == ~sourceIsDir

\* C12 mutant: the destination is never taken as the directory to put the
\* source in.
retargetsNever(h, parentD, newBasenameD, destinationIsRoot) == FALSE

\* validateAndTransferNode, line 1383: the destination names an existing
\* child of its parent (and is not the root), so the source goes into it.
retargets(h, parentD, newBasenameD, destinationIsRoot) ==
    contains(h, parentD, newBasenameD) /\ ~destinationIsRoot

\* FileManagerEmulator::validateAndTransferNode
validateAndTransferNode(h, rootId, s, d, transferMode) ==
    LET source      == normalizePath(s)
        destination == normalizePath(d)
        infoS == getNodePathInfo(source, "Invalid")
        infoD == getNodePathInfo(destination, "Invalid")
        pathS == infoS.path
        basenameS == infoS.basename
        pathD == infoD.path
        basenameD == infoD.basename
        destinationIsRoot == isRootDirectory(h, rootId, pathD, basenameD)
        newBasenameD == IF destinationIsRoot THEN basenameS ELSE basenameD
    IN  IF isRootDirectory(h, rootId, pathS, basenameS) THEN Res(h, FALSE, "RootSource")
        ELSE IF isSameNode(pathS, basenameS, pathD, basenameD, destinationIsRoot)
        THEN Res(h, TRUE, "SameNode")
        ELSE IF isOwnSubdirectory(source, destination)
        THEN Res(h, FALSE, "OwnSubdirectory")
        ELSE
        LET parentS == findNodeByPath(h, rootId, pathS)
        IN  IF parentS.node = nullptr THEN Res(h, FALSE, parentS.err)
            ELSE IF ~contains(h, parentS.node, basenameS) THEN Res(h, FALSE, "NoSuchSource")
            ELSE
            LET parentD == findNodeByPath(h, rootId, pathD)
            IN  IF parentD.node = nullptr THEN Res(h, FALSE, parentD.err)
                ELSE IF parentS.node = parentD.node /\ basenameS = newBasenameD
                THEN Res(h, TRUE, "SameParentSameName")
                ELSE IF ~h[parentD.node].isDirectory
                THEN Res(h, FALSE, "DestinationNotADirectory")
                ELSE
                LET sourceIsDir == h[h[parentS.node].children[basenameS]].isDirectory
                    ignoreIfAlreadyExist == ignoreIfAlreadyExistFor(sourceIsDir)
                IN  IF ~sourceIsDir /\ source[Len(source)] = pathDelimiter
                    THEN Res(h, FALSE, "InvalidFileReference")
                    ELSE IF retargets(h, parentD.node, newBasenameD, destinationIsRoot)
                    THEN transferNode(h, parentS.node,
                                      h[parentD.node].children[newBasenameD],
                                      basenameS, <<>>, ignoreIfAlreadyExist, transferMode)
                    ELSE IF ~sourceIsDir /\ destination[Len(destination)] = pathDelimiter
                            /\ ~destinationIsRoot
                    THEN Res(h, FALSE, "InvalidFileReference")
                    ELSE transferNode(h, parentS.node, parentD.node, basenameS,
                                      newBasenameD, ignoreIfAlreadyExist, transferMode)

\* FileManagerEmulator::cp
cp(h, rootId, source, destination) ==
    validateAndTransferNode(h, rootId, source, destination, "Copy")

\* FileManagerEmulator::mv
mv(h, rootId, source, destination) ==
    validateAndTransferNode(h, rootId, source, destination, "Move")

\* ------------------------------------------------------- object identity

\* The names in S, one after the other, in an order fixed by S alone.
RECURSIVE Enumerate(_)
Enumerate(S) ==
    IF S = {} THEN <<>>
    ELSE LET x == CHOOSE y \in S : TRUE IN <<x>> \o Enumerate(S \ {x})

\* The objects met walking down from the ids of stack, parents before
\* children, at most fuel of them.
RECURSIVE Preorder(_, _, _)
Preorder(h, stack, fuel) ==
    IF stack = <<>> \/ fuel = 0 THEN <<>>
    ELSE LET n    == Head(stack)
             keys == Enumerate(DOMAIN h[n].children)
             kids == [i \in 1..Len(keys) |-> h[n].children[keys[i]]]
         IN  <<n>> \o Preorder(h, kids \o Tail(stack), fuel - 1)

\* An object's address says nothing but which object it is.  Renumber keeps
\* one heap of every family of heaps that differ only in the addresses: the
\* objects owned by the root are numbered in walking order, the others (owned
\* by no live object, never freed) after them.  A heap in which some object
\* is owned twice is left as it is.
Renumber(h, rootId) ==
    LET ord   == Preorder(h, <<rootId>>, MaxNodes + 1)
        live  == {ord[i] : i \in 1..Len(ord)}
        lost  == DOMAIN h \ live
        to(n) == IF n \in live THEN CHOOSE i \in 1..Len(ord) : ord[i] = n
                 ELSE Len(ord) + Rank(lost, n)
        from(c) == CHOOSE n \in DOMAIN h : to(n) = c
    IN  IF Cardinality(live) # Len(ord) THEN h
        ELSE [c \in {to(n) : n \in DOMAIN h} |->
                FsNode(h[from(c)].name, h[from(c)].isDirectory,
                       [k \in DOMAIN h[from(c)].children |->
                            to(h[from(c)].children[k])])]

\* ------------------------------------------------------------- rendering

\* The value of a character as std::string compares it (its char code).
charValue(c) ==
    CASE c = " " -> 32
      [] c = "." -> 46
      [] c = "/" -> 47
      [] c = "a" -> 97
      [] c = "b" -> 98
      [] c = "t" -> 116

\* a < b of std::string: the first differing character decides, a proper
\* prefix is less.
RECURSIVE less(_, _)
less(a, b) ==
    IF b = <<>> THEN FALSE
    ELSE IF a = <<>> THEN TRUE
    ELSE IF Head(a) # Head(b) THEN charValue(Head(a)) < charValue(Head(b))
    ELSE less(Tail(a), Tail(b))

\* C26 mutant: the children keys are sorted in descending order.
RECURSIVE sortDescending(_)
sortDescending(keys) ==
    IF keys = {} THEN <<>>
    ELSE LET last == CHOOSE k \in keys : \A o \in keys \ {k} : less(o, k)
         IN  <<last>> \o sortDescending(keys \ {last})

\* printFileTree, lines 817-821: std::sort of the children keys with a < b.
RECURSIVE sort(_)
sort(keys) ==
    IF keys = {} THEN <<>>
    ELSE LET first == CHOOSE k \in keys : \A o \in keys \ {k} : less(k, o)
         IN  <<first>> \o sort(keys \ {first})

\* printFileTree, lines 807-815: the keys of the children that are set.
sortedChildrenKeys(h, node) ==
    sort({k \in DOMAIN h[node].children : h[node].children[k] # nullptr})

\* printFileTree, lines 793-805: the line printed for a node under a prefix.
line(h, node, prefix) ==
    [prefix |-> IF prefix = <<>> THEN <<>> ELSE prefix \o <<"_">>,
     name |-> h[node].name,
     type |-> IF h[node].isDirectory THEN "[D]" ELSE "[F]"]

\* printFileTree, lines 799 and 804: the prefix of the lines of the children.
nextPrefix(prefix) == IF prefix = <<>> THEN <<"|">> ELSE prefix \o <<" ", "|">>

\* printFileTree, the lambda printNode: the calls still to be made, first
\* one first, each a pair of a node and a prefix; a directory's children
\* are printed right after it, in the order of their sorted keys.
RECURSIVE printNode(_, _)
printNode(h, todo) ==
    IF todo = <<>> THEN <<>>
    ELSE LET node == Head(todo)[1]
             prefix == Head(todo)[2]
             keys == sortedChildrenKeys(h, node)
             below == IF h[node].isDirectory
                      THEN [i \in 1..Len(keys) |->
                               <<h[node].children[keys[i]], nextPrefix(prefix)>>]
                      ELSE <<>>
         IN  <<line(h, node, prefix)>> \o printNode(h, below \o Tail(todo))

\* FileManagerEmulator::printFileTree: the lines logged after the heading.
printFileTree(h, rootId) == printNode(h, << <<rootId, <<>> >> >>)

\* ----------------------------------------------------------------- state

VARIABLES
    nodes,      \* the FsNode objects alive: id -> FsNode
    m_fsRoot,   \* FileManagerEmulator::m_fsRoot, the id of the root object
    call,       \* the handler call that has just returned to its caller
    pc,         \* where the caller is: "api" (a client of the public
                \* handlers), or in run(): "init", "loop", "check", "done"
    code,       \* the ErrorCode run() returns
    failed,     \* history: a command of this run() has failed
    output      \* the file trees logged by printFileTree, oldest first

vars == <<nodes, m_fsRoot, call, pc, code, failed, output>>

\* The raw path arguments the commands are called with: the root, the names
\* a (no '.') and b.t (with a '.') in the root and below one another, with
\* and without a leading or trailing delimiter, and with a blank piece.
Paths ==
    { <<"/">>,
      <<"a">>,
      <<"/", "a", "/">>,
      <<"/", "b", ".", "t">>,
      <<"/", "a", "/", "b", ".", "t">>,
      <<"/", "b", ".", "t", "/", "a">>,
      <<"/", "a", "/", "b", ".", "t", "/">>,
      <<"/", " ", "/", "a">> }

\* No call has returned that the caller has not yet looked at.
NoCall == [op |-> "none", args |-> <<>>, ret |-> TRUE, out |-> "None", before |-> <<>>]

\* FileManagerEmulator::FileManagerEmulator: the root directory "/".
Constructed ==
    /\ nodes = (1 :> FsNode(<<pathDelimiter>>, TRUE, NoChildren))
    /\ m_fsRoot = 1
    /\ call = NoCall
    /\ code = "NoError"
    /\ failed = FALSE
    /\ output = <<>>

\* A client that calls the public handlers cp, md, mf, mv, rm directly.
Init == Constructed /\ pc = "api"

\* One call of a command handler with the arguments args, r being what the
\* handler computes from the heap.
Call(op, args, r) ==
    /\ pc \in {"api", "loop"}
    /\ call.op = "none"
    /\ r.out # "NoMemory"
    /\ nodes' = Renumber(r.nodes, m_fsRoot)
    /\ call' = [op |-> op, args |-> args, ret |-> r.ret, out |-> r.out, before |-> nodes]
    /\ pc' = IF pc = "loop" THEN "check" ELSE pc
    /\ failed' = IF pc = "loop" THEN failed \/ ~r.ret ELSE failed
    /\ UNCHANGED <<m_fsRoot, code, output>>

Md == \E p \in Paths : Call("md", <<p>>, md(nodes, m_fsRoot, p))

Mf == \E p \in Paths : Call("mf", <<p>>, mf(nodes, m_fsRoot, p))

Rm == \E p \in Paths : Call("rm", <<p>>, rm(nodes, m_fsRoot, p))

Cp == \E s, d \in Paths : Call("cp", <<s, d>>, cp(nodes, m_fsRoot, s, d))

Mv == \E s, d \in Paths : Call("mv", <<s, d>>, mv(nodes, m_fsRoot, s, d))

\* The client has taken the returned value and goes on.
Return ==
    /\ pc = "api"
    /\ call.op # "none"
    /\ call' = NoCall
    /\ UNCHANGED <<nodes, m_fsRoot, pc, code, failed, output>>

Next == Md \/ Mf \/ Rm \/ Cp \/ Mv \/ Return

Spec == Init /\ [][Next]_vars

\* ------------------------------------------------- one node, many spellings

\* Paths written plainly, the one name in them, "a a", with a blank inside:
\* the root, the name in the root, without and with a trailing delimiter,
\* and the name below itself.
PlainPaths ==
    { <<"/">>,
      <<"/", "a", " ", "a">>,
      <<"/", "a", " ", "a", "/">>,
      <<"/", "a", " ", "a", "/", "a", " ", "a">> }

\* The path p with d written in place of every delimiter.
RECURSIVE Respell(_, _)
Respell(p, d) ==
    IF p = <<>> THEN <<>>
    ELSE (IF Head(p) = pathDelimiter THEN d ELSE <<Head(p)>>) \o Respell(Tail(p), d)

\* The path p without its leading delimiter (the root keeps its delimiter).
NoLeading(p) == IF Len(p) > 1 /\ Head(p) = pathDelimiter THEN Tail(p) ELSE p

\* Other ways of writing the plain path p: without the leading delimiter,
\* with every delimiter repeated, with a blank piece at every delimiter,
\* with blanks around every piece.
Spellings(p) ==
    { p,
      NoLeading(p),
      Respell(p, <<pathDelimiter, pathDelimiter>>),
      Respell(p, <<pathDelimiter, Space, pathDelimiter>>),
      Respell(p, <<Space, pathDelimiter, Space>>) \o <<Space>> }

SpelledPaths == UNION {Spellings(p) : p \in PlainPaths}

\* A client that calls the public handlers with paths in all these spellings.
MdSpelled == \E p \in SpelledPaths : Call("md", <<p>>, md(nodes, m_fsRoot, p))

MfSpelled == \E p \in SpelledPaths : Call("mf", <<p>>, mf(nodes, m_fsRoot, p))

RmSpelled == \E p \in SpelledPaths : Call("rm", <<p>>, rm(nodes, m_fsRoot, p))

CpSpelled == \E s, d \in SpelledPaths : Call("cp", <<s, d>>, cp(nodes, m_fsRoot, s, d))

MvSpelled == \E s, d \in SpelledPaths : Call("mv", <<s, d>>, mv(nodes, m_fsRoot, s, d))

NextSpelled == MdSpelled \/ MfSpelled \/ RmSpelled \/ CpSpelled \/ MvSpelled \/ Return

SpellingSpec == Init /\ [][NextSpelled]_vars

\* ------------------------------------------- a name that begins another

\* Paths of the names a and aa, the first a string prefix of the second, in
\* the root and below one another.
PrefixPaths ==
    { <<"/", "a">>,
      <<"/", "a", "a">>,
      <<"/", "a", "a", "/", "a">>,
      <<"/", "a", "/", "a", "a">> }

\* A client that calls the public handlers with these paths.
MdPrefix == \E p \in PrefixPaths : Call("md", <<p>>, md(nodes, m_fsRoot, p))

MfPrefix == \E p \in PrefixPaths : Call("mf", <<p>>, mf(nodes, m_fsRoot, p))

RmPrefix == \E p \in PrefixPaths : Call("rm", <<p>>, rm(nodes, m_fsRoot, p))

CpPrefix == \E s, d \in PrefixPaths : Call("cp", <<s, d>>, cp(nodes, m_fsRoot, s, d))

MvPrefix == \E s, d \in PrefixPaths : Call("mv", <<s, d>>, mv(nodes, m_fsRoot, s, d))

NextPrefix == MdPrefix \/ MfPrefix \/ RmPrefix \/ CpPrefix \/ MvPrefix \/ Return

PrefixSpec == Init /\ [][NextPrefix]_vars

\* ------------------------------------------------- normalizePath on its own

\* Every string of at most MaxLen characters out of a delimiter, a blank
\* and a letter.
RawPaths == UNION { [1..n -> {pathDelimiter, Space, "a"}] : n \in 0..MaxLen }

\* A raw path is about to be normalized.
InitNormalize ==
    /\ nodes = (1 :> FsNode(<<pathDelimiter>>, TRUE, NoChildren))
    /\ m_fsRoot = 1
    /\ code = "NoError"
    /\ failed = FALSE
    /\ output = <<>>
    /\ pc = "path"
    /\ \E nodePath \in RawPaths :
          call = [op |-> "normalizePath", args |-> <<nodePath>>, ret |-> TRUE,
                  out |-> <<>>, before |-> <<>>]

\* normalizePath is called with the raw path; call.out is what it returns.
Normalize ==
    /\ pc = "path"
    /\ call' = [call EXCEPT !.out = normalizePath(call.args[1])]
    /\ pc' = "normalized"
    /\ UNCHANGED <<nodes, m_fsRoot, code, failed, output>>

\* normalizePath is called with what it has returned.
NormalizeAgain ==
    /\ pc = "normalized"
    /\ call' = [call EXCEPT !.args = <<call.out>>, !.out = normalizePath(call.out)]
    /\ pc' = "renormalized"
    /\ UNCHANGED <<nodes, m_fsRoot, code, failed, output>>

NextNormalize == Normalize \/ NormalizeAgain

NormalizeSpec == InitNormalize /\ [][NextNormalize]_vars

\* ------------------------------------------------------------------ run()

\* FileManagerEmulator::run entered, the parser not yet made.
InitRun == Constructed /\ pc = "init"

\* The command names the parser knows (commandsMap).
CommandNames == {"cp", "md", "mf", "mv", "rm"}

\* C24 mutant: every command is taken to accept one argument.
numArgsToAcceptOne(name) == 1

\* validateNumberOfCommandArguments: commandsArgumentNum.
numArgsToAccept(name) == IF name \in {"cp", "mv"} THEN 2 ELSE 1

\* run(), lines 838-841: initCommandParser opens the input stream or fails;
\* on failure run() returns at once.
InitCommandParser ==
    /\ pc = "init"
    /\ \E opened \in BOOLEAN :
          /\ pc' = IF opened THEN "loop" ELSE "done"
          /\ code' = IF opened THEN code ELSE "CannotOpenDataStream"
    /\ UNCHANGED <<nodes, m_fsRoot, call, failed, output>>

\* C25 mutant: the result is returned without the tree being printed.
printResultTreeSilently(out, h, rootId) == out

\* run(), lines 843-855, the lambda printResultTree: the log after the
\* call of printFileTree.
printResultTree(out, h, rootId) == Append(out, printFileTree(h, rootId))

\* C29 mutant: the number of arguments is looked at before the parsing error.
rejectionCountFirst(name, error, numPassedArgs) ==
    IF name # "Unknown" /\ numPassedArgs # numArgsToAccept(name)
    THEN "CommandArgumentsError"
    ELSE IF name = "Unknown" \/ error THEN "CommandParsingError"
    ELSE "NoError"

\* run(), lines 866-880: the ErrorCode run() returns for a command before
\* executing it, "NoError" if it goes on to execute it; error says that
\* command.error has a value, numPassedArgs is command.arguments.size().
rejection(name, error, numPassedArgs) ==
    IF name = "Unknown" \/ error THEN "CommandParsingError"
    ELSE IF numPassedArgs # numArgsToAccept(name) THEN "CommandArgumentsError"
    ELSE "NoError"

\* The commands getNextCommand can return: an unknown name comes with an
\* error and without arguments, a known one with up to three arguments and
\* with or without an error.
Commands ==
    { c \in [name : CommandNames \cup {"Unknown"}, error : BOOLEAN, numArgs : 0..3] :
        c.name = "Unknown" => (c.error /\ c.numArgs = 0) }

\* run() returns printResultTree(c) for a command that was not executed.
Abort(command, out, c) ==
    /\ call' = [op |-> command.name,
                args |-> [i \in 1..command.numArgs |-> <<pathDelimiter>>],
                ret |-> FALSE, out |-> out, before |-> nodes,
                error |-> command.error]
    /\ code' = c
    /\ pc' = "done"
    /\ failed' = TRUE
    /\ output' = printResultTree(output, nodes, m_fsRoot)
    /\ UNCHANGED <<nodes, m_fsRoot>>

\* run(), lines 866-875: the command name is unknown, or its arguments
\* could not be parsed.
ParsingError ==
    /\ pc = "loop"
    /\ \E command \in Commands :
          /\ rejection(command.name, command.error, command.numArgs) = "CommandParsingError"
          /\ Abort(command, "ParsingError", "CommandParsingError")

\* run(), lines 877-880: validateNumberOfCommandArguments returns false.
ArgumentsError ==
    /\ pc = "loop"
    /\ \E command \in Commands :
          /\ rejection(command.name, command.error, command.numArgs) = "CommandArgumentsError"
          /\ Abort(command, "ArgumentsError", "CommandArgumentsError")

\* C7 mutant: the loop goes on after a command that failed.
afterCommandGoOn(ret) == "loop"

\* run(), lines 882-885: where run() goes after executeCommand returned ret.
afterCommand(ret) == IF ~ret THEN "done" ELSE "loop"

\* run(), lines 882-885: the returned value of executeCommand is looked at.
CheckResult ==
    /\ pc = "check"
    /\ pc' = afterCommand(call.ret)
    /\ code' = IF pc' = "done" THEN "LogicError" ELSE code
    /\ call' = IF pc' = "done" THEN call ELSE NoCall
    /\ output' = IF pc' = "done" THEN printResultTree(output, nodes, m_fsRoot)
                 ELSE output
    /\ UNCHANGED <<nodes, m_fsRoot, failed>>

\* run(), lines 857 and 888: no more input.
EndOfInput ==
    /\ pc = "loop"
    /\ pc' = "done"
    /\ code' = "NoError"
    /\ output' = printResultTree(output, nodes, m_fsRoot)
    /\ UNCHANGED <<nodes, m_fsRoot, call, failed>>

NextRun ==
    \/ InitCommandParser \/ ParsingError \/ ArgumentsError
    \/ Md \/ Mf \/ Rm \/ Cp \/ Mv
    \/ CheckResult \/ EndOfInput

RunSpec == InitRun /\ [][NextRun]_vars

\* ------------------------------------------------- what the claims speak of

\* The names a raw path lists: its pieces, trimmed, the empty ones dropped.
RECURSIVE NamesOf(_)
NamesOf(ps) ==
    IF ps = <<>> THEN <<>>
    ELSE (IF trim(Head(ps)) # <<>> THEN <<trim(Head(ps))>> ELSE <<>>)
         \o NamesOf(Tail(ps))

Segments(p) == NamesOf(Pieces(p))

\* The raw path ends with a delimiter (whitespace after it aside).
EndsWithDelimiter(p) ==
    Positions(p, pathDelimiter) # {} /\ trim(Pieces(p)[Len(Pieces(p))]) = <<>>

\* The object reached from node n by the child names segs, or nullptr.
RECURSIVE NodeAt(_, _, _)
NodeAt(h, n, segs) ==
    IF segs = <<>> THEN n
    ELSE IF n \notin DOMAIN h \/ Head(segs) \notin DOMAIN h[n].children THEN nullptr
    ELSE NodeAt(h, h[n].children[Head(segs)], Tail(segs))

\* The object a raw path denotes in heap h, or nullptr.
Denoted(h, p) == NodeAt(h, m_fsRoot, Segments(p))

IsDir(h, n) == n # nullptr /\ h[n].isDirectory

IsFile(h, n) == n # nullptr /\ ~h[n].isDirectory

IsPrefix(s, t) == Len(s) <= Len(t) /\ Sub(t, 1, Len(s)) = s

\* The handler of one of the commands ops was called and has returned.
Did(ops) == call.op \in ops /\ call.out \notin {"ParsingError", "ArgumentsError"}

Transfers == {"cp", "mv"}

Handlers == {"md", "mf", "rm", "cp", "mv"}

\* The objects that hold n as a child.
Owners(h, n) == {o \in DOMAIN h : \E k \in DOMAIN h[o].children : h[o].children[k] = n}

\* C1: after any sequence of md, mf, rm, cp, mv calls, successful or failed,
\* the root object is the one the constructor made, it is alive, it is a
\* directory named "/", no object holds it as a child, and the path "/"
\* resolves to it.
C1_RootIntact ==
    /\ m_fsRoot = 1
    /\ m_fsRoot \in DOMAIN nodes
    /\ nodes[m_fsRoot].isDirectory
    /\ nodes[m_fsRoot].name = <<pathDelimiter>>
    /\ Owners(nodes, m_fsRoot) = {}
    /\ findNodeByPath(nodes, m_fsRoot, normalizePath(<<pathDelimiter>>)).node = m_fsRoot

\* C1 witness: rm "/" has returned true (it removed the child of the root
\* whose name is empty), and the root is still there with other objects.
C1_Witness_RmRootReturnedTrue ==
    /\ call.op = "rm" /\ Segments(call.args[1]) = <<>> /\ call.ret
    /\ Cardinality(DOMAIN nodes) >= 2

\* The call that has just returned left every object as it was.
Untouched == nodes = call.before

\* C2: for every existing directory D and every destination strictly inside
\* D's subtree (existing or not), mv D dest and cp D dest fail and leave the
\* tree unchanged, however the source path is spelled (a trailing delimiter
\* included).
C2_NoTransferIntoOwnSubtree ==
    ( /\ Did(Transfers)
      /\ IsDir(call.before, Denoted(call.before, call.args[1]))
      /\ IsPrefix(Segments(call.args[1]), Segments(call.args[2]))
      /\ Segments(call.args[1]) # Segments(call.args[2]) )
    => (~call.ret /\ Untouched)

\* C2 for the sources written without a trailing delimiter.
C2_HoldsWithoutTrailingDelimiter ==
    ( /\ Did(Transfers)
      /\ IsDir(call.before, Denoted(call.before, call.args[1]))
      /\ ~EndsWithDelimiter(call.args[1])
      /\ IsPrefix(Segments(call.args[1]), Segments(call.args[2]))
      /\ Segments(call.args[1]) # Segments(call.args[2]) )
    => (~call.ret /\ Untouched)

\* C3 as stated: for every path X (an existing file, an existing directory,
\* the root, or nothing), mv X X and cp X X return true and leave the tree
\* unchanged.
C3_SelfTransferAlwaysSucceeds ==
    (Did(Transfers) /\ call.args[1] = call.args[2])
    => (call.ret /\ Untouched)

\* C3 amended: for every path X that does not denote the root, mv X X and
\* cp X X return true and leave the tree unchanged; with X denoting the
\* root they return false (and leave the tree unchanged too).
C3_SelfTransferOfNonRoot ==
    (Did(Transfers) /\ call.args[1] = call.args[2])
    => /\ Untouched
       /\ call.ret <=> Segments(call.args[1]) # <<>>

\* C3 witness: mv X X has returned for an X that names nothing, and the
\* tree holds other nodes.
C3_Witness_SelfMoveOfMissingNode ==
    /\ call.op = "mv" /\ call.args[1] = call.args[2]
    /\ Segments(call.args[1]) # <<>>
    /\ Denoted(call.before, call.args[1]) = nullptr
    /\ Cardinality(DOMAIN nodes) >= 2
    /\ call.ret

\* The last name a raw path lists (the basename of a path that is not the root).
LastName(p) == Segments(p)[Len(Segments(p))]

\* The source of the returned transfer is an existing file, written without
\* a trailing delimiter.
SourceIsFile ==
    /\ Did(Transfers)
    /\ ~EndsWithDelimiter(call.args[1])
    /\ IsFile(call.before, Denoted(call.before, call.args[1]))

\* The destination denotes the root or an existing directory that has a
\* child with the source's name.
DestinationDirHoldsSourceName ==
    /\ IsDir(call.before, Denoted(call.before, call.args[2]))
    /\ LastName(call.args[1]) \in
           DOMAIN call.before[Denoted(call.before, call.args[2])].children

\* The destination path itself names an existing file.
DestinationIsFile ==
    /\ ~EndsWithDelimiter(call.args[2])
    /\ IsFile(call.before, Denoted(call.before, call.args[2]))

\* C4: when the source of cp or mv is an existing file and the destination
\* already holds a node with the target name, the command returns true and
\* changes nothing; this covers a destination directory (or the root) that
\* has a child with the source's name, and a destination path that names an
\* existing file.
C4_FileCollisionIgnored ==
    (SourceIsFile /\ (DestinationDirHoldsSourceName \/ DestinationIsFile))
    => (call.ret /\ Untouched)

\* C4 for a destination that is a directory holding the source's name.
C4_HoldsForDirectoryDestination ==
    (SourceIsFile /\ DestinationDirHoldsSourceName) => (call.ret /\ Untouched)

\* The directory in which the destination path's last name is looked up.
DestinationParent(h, d) ==
    IF Segments(d) = <<>> THEN m_fsRoot
    ELSE NodeAt(h, m_fsRoot, Sub(Segments(d), 1, Len(Segments(d)) - 1))

\* The destination names an existing child of its parent, so the transfer
\* is re-targeted one level deeper (the root is never re-targeted).
Retargeted(h, d) ==
    /\ Segments(d) # <<>>
    /\ DestinationParent(h, d) # nullptr
    /\ LastName(d) \in DOMAIN h[DestinationParent(h, d)].children

\* The effective destination parent of a transfer of s to d.
EffectiveParent(h, d) ==
    IF Retargeted(h, d) THEN h[DestinationParent(h, d)].children[LastName(d)]
    ELSE DestinationParent(h, d)

\* The effective target name of a transfer of s to d.
EffectiveName(h, s, d) ==
    IF Segments(d) = <<>> \/ Retargeted(h, d) THEN LastName(s) ELSE LastName(d)

\* The source of the returned transfer is an existing directory (not the
\* root) and the effective destination parent has a child with the
\* effective target name.
DirectoryCollision ==
    /\ Did(Transfers)
    /\ Segments(call.args[1]) # <<>>
    /\ IsDir(call.before, Denoted(call.before, call.args[1]))
    /\ EffectiveParent(call.before, call.args[2]) # nullptr
    /\ EffectiveName(call.before, call.args[1], call.args[2]) \in
           DOMAIN call.before[EffectiveParent(call.before, call.args[2])].children

CollisionWithAnotherNode ==
    /\ DirectoryCollision
    /\ Segments(call.args[1]) # Segments(call.args[2])
    /\ call.before[EffectiveParent(call.before, call.args[2])]
           .children[EffectiveName(call.before, call.args[1], call.args[2])]
       # Denoted(call.before, call.args[1])

RECURSIVE PathsFrom(_, _, _)
PathsFrom(h, n, fuel) ==
    IF n \notin DOMAIN h \/ fuel = 0 THEN {<<>>}
    ELSE {<<>>} \cup UNION { {<<k>> \o q : q \in PathsFrom(h, h[n].children[k], fuel - 1)} :
                             k \in DOMAIN h[n].children }

\* What the tree holds at the child-name sequence y: for every node at or
\* below it, where it is, its stored name, its kind.  Empty if y leads nowhere.
View(h, y) ==
    LET n == NodeAt(h, m_fsRoot, y)
    IN  IF n = nullptr \/ n \notin DOMAIN h THEN {}
        ELSE { <<q, h[NodeAt(h, n, q)].name, h[NodeAt(h, n, q)].isDirectory>> :
                 q \in {r \in PathsFrom(h, n, MaxNodes) : NodeAt(h, n, r) \in DOMAIN h} }

\* Neither of the name sequences is a prefix of the other.
Apart(x, y) == ~IsPrefix(x, y) /\ ~IsPrefix(y, x)

\* The places (object, child name) at which object n is held.
HeldAt(h, n) ==
    UNION { {<<o, k>> : k \in {j \in DOMAIN h[o].children : h[o].children[j] = n}} :
            o \in DOMAIN h }

\* Every live object other than the root is held by exactly one object under
\* exactly one name; the root is held by none.
NoObjectShared ==
    \A n \in Owned(nodes, {m_fsRoot}) :
        Cardinality(HeldAt(nodes, n)) = IF n = m_fsRoot THEN 0 ELSE 1

\* The returned call, all of whose paths lie apart from y, has left what the
\* tree holds at y as it was.
LeftAlone(y) ==
    (\A i \in 1..Len(call.args) : Apart(Segments(call.args[i]), y))
    => View(nodes, y) = View(call.before, y)

\* C6: copy independence.  A clone shares no object with the original (no
\* object of the tree is ever held twice), so a command applied to paths
\* under the clone leaves every path under the original as it was, and a
\* command applied under the original leaves the clone as it was: whatever
\* lies apart from all the paths of a command is left alone by it.
C6_CopyIndependence ==
    /\ NoObjectShared
    /\ Did(Handlers) =>
         \A y \in PathsFrom(call.before, m_fsRoot, MaxNodes) \cup PathsFrom(nodes, m_fsRoot, MaxNodes) :
             LeftAlone(y)

\* The trees at x and y are alike but for the stored name of their top node.
Mirror(h, x, y) ==
    {<<v[1], v[3]>> : v \in View(h, x)} = {<<v[1], v[3]>> : v \in View(h, y)}

\* C6 witness: cp has copied the directory /a, which has a child, to /b.t:
\* /b.t mirrors /a, /a is as it was, and no object is held twice.
C6_Witness_DeepCopy ==
    /\ call.op = "cp" /\ call.out = "Copied"
    /\ Segments(call.args[1]) = <<<<"a">>>>
    /\ Cardinality(View(call.before, <<<<"a">>>>)) >= 2
    /\ View(call.before, <<<<"b", ".", "t">>>>) = {}
    /\ Mirror(nodes, <<<<"a">>>>, <<<<"b", ".", "t">>>>)
    /\ View(nodes, <<<<"a">>>>) = View(call.before, <<<<"a">>>>)
    /\ NoObjectShared

\* Reached as well: with /b.t a mirror of /a, rm /a/b.t has removed the child
\* of /a, and /b.t still has its own child b.t.
C6_RemoveUnderOriginalReached ==
    /\ call.op = "rm" /\ call.ret
    /\ Segments(call.args[1]) = <<<<"a">>, <<"b", ".", "t">>>>
    /\ Mirror(call.before, <<<<"a">>>>, <<<<"b", ".", "t">>>>)
    /\ View(call.before, <<<<"b", ".", "t">>, <<"b", ".", "t">>>>) # {}
    /\ View(nodes, <<<<"a">>, <<"b", ".", "t">>>>) = {}
    /\ View(nodes, <<<<"b", ".", "t">>>>) = View(call.before, <<<<"b", ".", "t">>>>)

\* C7: fail-fast without rollback.  Once a command of a run() has failed
\* (a parsing error, an argument-count error or a handler returning false),
\* the loop is left and no further command is applied; the tree is then,
\* and stays, the tree the commands before the failing one produced.  A
\* run() that ends with an error code other than CannotOpenDataStream has
\* ended on such a failed command.
C7_FailFastNoRollback ==
    /\ failed => /\ pc \in {"check", "done"}
                 /\ ~call.ret
                 /\ nodes = call.before
    /\ (pc = "done" /\ code \notin {"NoError", "CannotOpenDataStream"}) => failed
    /\ (pc = "done" /\ failed) => code \notin {"NoError", "CannotOpenDataStream"}

\* C7 witness: run() has ended with LogicError on a failed md after two or
\* more nodes had been made, and they are all still there.
C7_Witness_AbortKeepsEarlierNodes ==
    /\ pc = "done" /\ code = "LogicError" /\ failed
    /\ call.op = "md" /\ ~call.ret
    /\ Cardinality(DOMAIN nodes) >= 3

\* C8: no partial application.  Every md, mf, rm, cp, mv call that returns
\* false leaves the tree exactly as it was.
C8_FailureChangesNothing ==
    (Did(Handlers) /\ ~call.ret) => Untouched

\* C8 witness: a mv of a directory has failed on a taken name, past all the
\* earlier checks, in a tree of four or more nodes.
C8_Witness_MoveFailedOnTakenName ==
    /\ call.op = "mv" /\ ~call.ret /\ call.out = "AlreadyExists"
    /\ Cardinality(DOMAIN nodes) >= 4
    /\ Untouched

\* C9: md P fails with AlreadyExists whenever the parent of P already has a
\* child with P's basename, be it a directory or a file, and the tree (so
\* the one node at P) is left as it was.
C9_MdOnTakenNameFails ==
    ( /\ Did({"md"})
      /\ Segments(call.args[1]) # <<>>
      /\ Denoted(call.before, call.args[1]) # nullptr )
    => (~call.ret /\ call.out = "AlreadyExists" /\ Untouched)

\* C9 witness: md has failed with AlreadyExists on a path that names a file.
C9_Witness_MdOnExistingFile ==
    /\ call.op = "md" /\ call.out = "AlreadyExists"
    /\ IsFile(call.before, Denoted(call.before, call.args[1]))

\* C10: mf P is idempotent.  When P is a file reference (no trailing
\* delimiter) and the parent of P already has a child with P's basename, a
\* file or a directory, mf P returns true and changes nothing.
C10_MfOnTakenNameIsNoOp ==
    ( /\ Did({"mf"})
      /\ ~EndsWithDelimiter(call.args[1])
      /\ Segments(call.args[1]) # <<>>
      /\ Denoted(call.before, call.args[1]) # nullptr )
    => (call.ret /\ call.out = "IgnoredExists" /\ Untouched)

\* C10 witness: mf has returned true on a path that names a directory with
\* a child, and the directory is as it was.
C10_Witness_MfOnExistingDirectory ==
    /\ call.op = "mf" /\ call.ret
    /\ IsDir(call.before, Denoted(call.before, call.args[1]))
    /\ Segments(call.args[1]) # <<>>
    /\ Cardinality(View(nodes, Segments(call.args[1]))) >= 2

\* The stored names of the children of every live directory differ from one
\* another, and each child is stored under its own name.
SiblingNamesUnique ==
    \A n \in Owned(nodes, {m_fsRoot}) :
        /\ \A k \in DOMAIN nodes[n].children : nodes[nodes[n].children[k]].name = k
        /\ \A j, k \in DOMAIN nodes[n].children :
               j # k => nodes[nodes[n].children[j]].name
                        # nodes[nodes[n].children[k]].name

\* Every live node other than the root has a non-empty stored name.
NamesNonEmpty ==
    \A n \in Owned(nodes, {m_fsRoot}) \ {m_fsRoot} : nodes[n].name # <<>>

\* C11: after any sequence of commands every node other than the root has a
\* non-empty name and no directory has two children with the same name; no
\* command whose path denotes the root makes a node with an empty name.
C11_NamesNonEmptyAndUnique == NamesNonEmpty /\ SiblingNamesUnique

\* C11, the part on sibling names alone.
C11_HoldsForSiblingNames == SiblingNamesUnique

\* The source path of the returned transfer names an existing node other
\* than the root, and not a file written with a trailing delimiter.
SourceExists ==
    /\ Did(Transfers)
    /\ Segments(call.args[1]) # <<>>
    /\ Denoted(call.before, call.args[1]) # nullptr
    /\ ~(EndsWithDelimiter(call.args[1])
         /\ IsFile(call.before, Denoted(call.before, call.args[1])))

\* The destination path of the returned transfer names an existing directory
\* C other than the root, which is neither the source nor inside it and has
\* no child with the source's basename.
IntoExistingDirectory ==
    /\ SourceExists
    /\ Segments(call.args[2]) # <<>>
    /\ IsDir(call.before, Denoted(call.before, call.args[2]))
    /\ ~IsPrefix(Segments(call.args[1]), Segments(call.args[2]))
    /\ LastName(call.args[1]) \notin
           DOMAIN call.before[Denoted(call.before, call.args[2])].children

\* C12: when the destination path names an existing directory C (not the
\* root), mv S C and cp S C put the source node inside C under the source's
\* own basename; C is neither replaced nor renamed and keeps all its
\* previous children.
C12_TransferIntoExistingDirectory ==
    IntoExistingDirectory =>
      LET S   == Segments(call.args[1])
          C   == Segments(call.args[2])
          cB  == call.before[Denoted(call.before, call.args[2])]
          cA  == Denoted(nodes, call.args[2])
      IN  /\ call.ret
          /\ call.out = IF call.op = "mv" THEN "Moved" ELSE "Copied"
          /\ View(nodes, C \o <<LastName(call.args[1])>>) = View(call.before, S)
          /\ IsDir(nodes, cA)
          /\ nodes[cA].name = cB.name
          /\ DOMAIN nodes[cA].children
               = DOMAIN cB.children \cup {LastName(call.args[1])}
          /\ \A k \in DOMAIN cB.children :
               /\ nodes[nodes[cA].children[k]].name = k
               /\ nodes[nodes[cA].children[k]].isDirectory
                    = call.before[cB.children[k]].isDirectory

\* C12 witness: mv has moved a node into an existing directory that had a
\* child of its own.
C12_Witness_MovedIntoDirectoryWithChild ==
    /\ IntoExistingDirectory
    /\ call.op = "mv" /\ call.out = "Moved"
    /\ call.before[Denoted(call.before, call.args[2])].children # NoChildren

\* The way to the parent of the node path p names is broken in heap h: some
\* directory on it does not exist, or some component of it is a file.
BrokenWay(h, p) ==
    /\ Segments(p) # <<>>
    /\ LET parent == NodeAt(h, m_fsRoot, Sub(Segments(p), 1, Len(Segments(p)) - 1))
       IN  parent = nullptr \/ IsFile(h, parent)

\* C13: md, mf, cp and mv never make missing intermediate nodes: if the way
\* to the parent of the target (for cp and mv: of the source or of the
\* destination) is broken, the command fails and the tree is unchanged.
C13_NoIntermediateNodesMade ==
    /\ (Did({"md", "mf"}) /\ BrokenWay(call.before, call.args[1]))
       => (~call.ret /\ Untouched)
    /\ (Did(Transfers) /\ (\/ BrokenWay(call.before, call.args[1])
                           \/ BrokenWay(call.before, call.args[2])))
       => (~call.ret /\ Untouched)

\* C13 amended: as C13, but a cp or mv whose source and destination name one
\* and the same node returns true, the tree unchanged, whatever is on the way.
C13_NoIntermediateNodesMadeButSelfTransfer ==
    /\ (Did({"md", "mf"}) /\ BrokenWay(call.before, call.args[1]))
       => (~call.ret /\ Untouched)
    /\ (Did(Transfers) /\ (\/ BrokenWay(call.before, call.args[1])
                           \/ BrokenWay(call.before, call.args[2])))
       => /\ Untouched
          /\ call.ret <=> Segments(call.args[1]) = Segments(call.args[2])

\* C13 witness: a transfer of an existing node has failed because the parent
\* the destination path names is a file.
C13_Witness_DestinationUnderFile ==
    /\ SourceExists
    /\ Segments(call.args[2]) # <<>>
    /\ IsFile(call.before, DestinationParent(call.before, call.args[2]))
    /\ ~call.ret /\ Untouched

\* C14: mf P with a path P that ends in a delimiter always fails as an
\* invalid file reference and leaves the tree unchanged, whether or not a
\* node with that basename exists and whether or not the basename has a '.'.
C14_MfTrailingDelimiterFails ==
    (Did({"mf"}) /\ EndsWithDelimiter(call.args[1]))
    => (~call.ret /\ call.out = "InvalidFileReference" /\ Untouched)

\* C14 witness: mf has failed on a path with a trailing delimiter whose
\* basename has a '.' and names an existing node.
C14_Witness_MfOnExistingDottedName ==
    /\ call.op = "mf" /\ ~call.ret
    /\ EndsWithDelimiter(call.args[1])
    /\ Segments(call.args[1]) # <<>>
    /\ isFilename(LastName(call.args[1]))
    /\ Denoted(call.before, call.args[1]) # nullptr

\* The first path of the returned call ends in a delimiter and names an
\* existing file.
TrailingDelimiterOnFile ==
    /\ EndsWithDelimiter(call.args[1])
    /\ IsFile(call.before, Denoted(call.before, call.args[1]))

\* C15: a trailing delimiter is forbidden for file references in every
\* command: when a path ending in the delimiter names an existing file, the
\* rm, mv or cp that has it as its target or source fails (whatever the
\* destination X, X the same path or the root included) and the tree is
\* unchanged.
C15_TrailingDelimiterOnFileFails ==
    (Did({"rm", "mv", "cp"}) /\ TrailingDelimiterOnFile)
    => (~call.ret /\ Untouched)

\* C15 for mv and cp whose destination is another place than the one the
\* source is in.
C15_HoldsForTransferElsewhere ==
    ( /\ Did(Transfers) /\ TrailingDelimiterOnFile
      /\ Segments(call.args[1]) # Segments(call.args[2])
      /\ ~(Segments(call.args[2]) = <<>> /\ Len(Segments(call.args[1])) = 1) )
    => (~call.ret /\ Untouched)

\* md p on the tree as it is now returns true, and rm p on what md has made
\* returns true and gives back the tree as it is now, object for object.
RoundTrip(p) ==
    LET made == md(nodes, m_fsRoot, p)
        gone == rm(made.nodes, m_fsRoot, p)
    IN  (made.ret /\ made.out # "NoMemory")
        => /\ gone.ret
           /\ Renumber(gone.nodes, m_fsRoot) = nodes

\* C16: round trip.  In every reachable tree state and for every path P for
\* which md P succeeds, the rm P that follows succeeds and restores the tree
\* to exactly what it was before the md.  (Every tree is reached between two
\* calls, so it is there that the round trip is taken.)
C16_MdThenRmRestores == call.op = "none" => \A p \in Paths : RoundTrip(p)

\* C16 witness: rm P has returned true on the tree md P makes of the tree
\* that is there now, a tree with a directory and something in it; so md P
\* and rm P have taken that tree back to itself.
C16_Witness_RemovedWhatMdMade ==
    /\ call.op = "rm" /\ call.ret
    /\ LET made == md(nodes, m_fsRoot, call.args[1])
       IN  made.ret /\ Renumber(made.nodes, m_fsRoot) = call.before
    /\ Cardinality(DOMAIN nodes) >= 3 /\ NamesNonEmpty
    /\ Len(Segments(call.args[1])) = 2

\* The returned md or mf has made a node (its name was free): one object
\* more is alive, the path of the call resolves to an object that was not in
\* the tree before and is a childless node of the kind the command makes,
\* named by the last name of the path, and the rest of the tree is as it was.
CreatedAsAsked ==
    LET p   == call.args[1]
        new == findNodeByPath(nodes, m_fsRoot, normalizePath(p)).node
    IN  /\ call.ret
        /\ Cardinality(DOMAIN nodes) = Cardinality(DOMAIN call.before) + 1
        /\ new # nullptr /\ new # m_fsRoot
        /\ new = Denoted(nodes, p)
        /\ Denoted(call.before, p) = nullptr
        /\ nodes[new] = FsNode(LastName(p), call.op = "md", NoChildren)
        /\ View(nodes, <<>>)
             = View(call.before, <<>>) \cup {<<Segments(p), LastName(p), call.op = "md">>}

\* C17: creation postcondition.  A successful md P on a free name adds
\* exactly one new childless directory and a successful mf P on a free name
\* exactly one new childless file, P resolves to the new node afterwards,
\* the kind is the command's and not the '.' heuristic's, and every other
\* node is unchanged.
C17_CreationPostcondition ==
    (Did({"md", "mf"}) /\ call.out = "Created") => CreatedAsAsked

\* C17 for paths that do not denote the root.
C17_HoldsOffRoot ==
    (Did({"md", "mf"}) /\ call.out = "Created" /\ Segments(call.args[1]) # <<>>)
    => CreatedAsAsked

\* The names that lead to the effective destination parent of a transfer
\* to d in heap h.
EffectiveParentPath(h, d) ==
    IF Segments(d) = <<>> \/ Retargeted(h, d) THEN Segments(d)
    ELSE Sub(Segments(d), 1, Len(Segments(d)) - 1)

\* Where the node transferred from s to d is to be found afterwards.
TargetPath(h, s, d) == EffectiveParentPath(h, d) \o <<EffectiveName(h, s, d)>>

\* The view v of a subtree with the stored name of its top node set to name.
Renamed(v, name) == {IF e[1] = <<>> THEN <<e[1], name, e[3]>> ELSE e : e \in v}

\* The view v of a subtree, its places counted from the root, the subtree
\* being at the name sequence y.
PlacedAt(v, y) == {<<y \o e[1], e[2], e[3]>> : e \in v}

\* The subtree that was at the source of the returned transfer, as it is to
\* be at the target: renamed to the effective name, placed at the target path.
SourceAtTarget ==
    PlacedAt(Renamed(View(call.before, Segments(call.args[1])),
                     EffectiveName(call.before, call.args[1], call.args[2])),
             TargetPath(call.before, call.args[1], call.args[2]))

\* The returned mv has moved the source: the source path resolves no more,
\* the target path resolves to a node with the effective name whose subtree
\* is the source's subtree, and all the rest of the tree is as it was.
MovedAsAsked ==
    LET S == Segments(call.args[1])
        T == TargetPath(call.before, call.args[1], call.args[2])
    IN  /\ call.ret
        /\ NodeAt(nodes, m_fsRoot, S) = nullptr
        /\ NodeAt(nodes, m_fsRoot, T) # nullptr
        /\ nodes[NodeAt(nodes, m_fsRoot, T)].name
             = EffectiveName(call.before, call.args[1], call.args[2])
        /\ View(nodes, T)
             = Renamed(View(call.before, S),
                       EffectiveName(call.before, call.args[1], call.args[2]))
        /\ View(nodes, <<>>)
             = (View(call.before, <<>>) \ PlacedAt(View(call.before, S), S))
               \cup SourceAtTarget
        /\ Cardinality(DOMAIN nodes) = Cardinality(DOMAIN call.before)

\* C18: move postcondition.  After a successful mv S D that is not a no-op
\* the source path no longer resolves, the node resolves at the destination
\* parent under the effective name, which is its stored name, its subtree is
\* the source subtree as it was, and every node outside it is unchanged.
C18_MovePostcondition ==
    (Did({"mv"}) /\ call.out = "Moved") => MovedAsAsked

\* C18 for destinations that are not inside the source's own subtree.
C18_HoldsOutsideOwnSubtree ==
    ( /\ Did({"mv"}) /\ call.out = "Moved"
      /\ ~IsPrefix(Segments(call.args[1]), Segments(call.args[2])) )
    => MovedAsAsked

\* The returned cp has copied the source: the target path resolves to a new
\* subtree that mirrors the source's, its top node named by the effective
\* name; as many objects are new as the source subtree has nodes, none of
\* them shared; the source subtree and all the rest of the tree are as
\* they were.
CopiedAsAsked ==
    LET S == Segments(call.args[1])
        T == TargetPath(call.before, call.args[1], call.args[2])
    IN  /\ call.ret
        /\ View(call.before, T) = {}
        /\ View(nodes, T)
             = Renamed(View(call.before, S),
                       EffectiveName(call.before, call.args[1], call.args[2]))
        /\ View(nodes, S) = View(call.before, S)
        /\ View(nodes, <<>>) = View(call.before, <<>>) \cup SourceAtTarget
        /\ Cardinality(DOMAIN nodes)
             = Cardinality(DOMAIN call.before) + Cardinality(View(call.before, S))
        /\ NoObjectShared

\* C19: copy postcondition.  After a successful cp S D that is not a no-op
\* a new subtree is at the destination parent under the effective name and
\* mirrors the source subtree node for node, and the source subtree and
\* every other node that was there are exactly as before.
C19_CopyPostcondition ==
    (Did({"cp"}) /\ call.out = "Copied") => CopiedAsAsked

\* C19 for destinations that are not inside the source's own subtree.
C19_HoldsOutsideOwnSubtree ==
    ( /\ Did({"cp"}) /\ call.out = "Copied"
      /\ ~IsPrefix(Segments(call.args[1]), Segments(call.args[2])) )
    => CopiedAsAsked

\* What the returned call has added to the tree, and of that the entries
\* nearest to the root: the top node of what a transfer has put there.
NewEntries == View(nodes, <<>>) \ View(call.before, <<>>)

TopNewEntries == {e \in NewEntries : \A f \in NewEntries : Len(e[1]) <= Len(f[1])}

\* The returned cp or mv has put a node somewhere.
Transferred == Did(Transfers) /\ call.out \in {"Moved", "Copied"}

\* The destination of the returned transfer denotes the root or is written
\* with a trailing delimiter.
BareDirectoryDestination ==
    Segments(call.args[2]) = <<>> \/ EndsWithDelimiter(call.args[2])

\* C20: effective target name.  When the destination of cp or mv denotes a
\* bare directory (the root, or any path ending in the delimiter), the
\* transferred node keeps the source's own basename, whether or not the
\* node named before the trailing delimiter exists.
C20_BareDirectoryKeepsName ==
    (Transferred /\ BareDirectoryDestination)
    => \A e \in TopNewEntries :
          e[2] = LastName(call.args[1]) /\ e[1][Len(e[1])] = LastName(call.args[1])

\* C20 amended: the transferred node keeps the source's basename when the
\* destination denotes the root or names an existing node (the directory it
\* is put in), with or without a trailing delimiter; when the last name of
\* the destination is free, the node is renamed to it, trailing delimiter
\* or not, and a file transferred to a free name written with a trailing
\* delimiter fails as an invalid file reference, the tree unchanged.
C20_ExistingDirectoryKeepsName ==
    /\ Transferred
       => \A e \in TopNewEntries :
             LET name == IF \/ Segments(call.args[2]) = <<>>
                            \/ Denoted(call.before, call.args[2]) # nullptr
                         THEN LastName(call.args[1])
                         ELSE LastName(call.args[2])
             IN  e[2] = name /\ e[1][Len(e[1])] = name
    /\ ( /\ SourceIsFile
         /\ EndsWithDelimiter(call.args[2])
         /\ Segments(call.args[2]) # <<>>
         /\ Denoted(call.before, call.args[2]) = nullptr )
       => (~call.ret /\ Untouched)

\* C20 witness: mv has moved a directory to a free name written with a
\* trailing delimiter, and the directory now has that name.
C20_Witness_RenamedDespiteTrailingDelimiter ==
    /\ call.op = "mv" /\ call.out = "Moved"
    /\ EndsWithDelimiter(call.args[2])
    /\ Denoted(call.before, call.args[2]) = nullptr
    /\ LastName(call.args[1]) # LastName(call.args[2])
    /\ IsDir(nodes, Denoted(nodes, call.args[2]))
    /\ nodes[Denoted(nodes, call.args[2])].name = LastName(call.args[2])

\* The destination of the returned transfer denotes the directory that holds
\* the (existing) source node.
IntoOwnParent ==
    /\ SourceExists
    /\ Segments(call.args[2])
         = Sub(Segments(call.args[1]), 1, Len(Segments(call.args[1])) - 1)

\* C21: transferring a node into the directory that already holds it is
\* ignored: for every existing node N, file or directory, with parent P,
\* mv N P and cp N P return true and leave the tree unchanged, P being the
\* root or any other directory.
C21_TransferIntoOwnParentIgnored ==
    IntoOwnParent => (call.ret /\ Untouched)

\* C21 for a parent that is the root, or a node that is a file.
C21_HoldsForRootOrFile ==
    ( /\ IntoOwnParent
      /\ \/ Segments(call.args[2]) = <<>>
         \/ IsFile(call.before, Denoted(call.before, call.args[1])) )
    => (call.ret /\ Untouched)

\* C21, what happens otherwise: a directory transferred into its own parent
\* other than the root fails on its own name, the tree unchanged.
C21_DirectoryIntoOwnParentFails ==
    ( /\ IntoOwnParent
      /\ Segments(call.args[2]) # <<>>
      /\ IsDir(call.before, Denoted(call.before, call.args[1])) )
    => (~call.ret /\ call.out = "AlreadyExists" /\ Untouched)

\* Raw spellings of the root other than "/": the empty path, "///", "/ / /".
RootSpellings ==
    { <<>>, <<"/", "/", "/">>, <<"/", " ", "/", " ", "/">> }

\* cp and mv of the root, however spelled, to destination d on the tree as
\* it is now return false and change nothing.
RootStays(d) ==
    \A s \in RootSpellings \cup {<<pathDelimiter>>} :
        /\ mv(nodes, m_fsRoot, s, d) = Res(nodes, FALSE, "RootSource")
        /\ cp(nodes, m_fsRoot, s, d) = Res(nodes, FALSE, "RootSource")

\* C22: the root can never be transferred.  Every cp or mv whose source path
\* normalizes to the root fails and leaves the tree unchanged, for every
\* destination, the root itself included.
C22_RootNeverTransferred ==
    /\ (Did(Transfers) /\ Segments(call.args[1]) = <<>>)
       => (~call.ret /\ call.out = "RootSource" /\ Untouched)
    /\ call.op = "none" => \A d \in Paths \cup RootSpellings : RootStays(d)

\* C22 witness: mv / / has returned false on a tree with nodes in it.
C22_Witness_MoveRootOntoRoot ==
    /\ call.op = "mv" /\ ~call.ret
    /\ Segments(call.args[1]) = <<>> /\ Segments(call.args[2]) = <<>>
    /\ Cardinality(DOMAIN nodes) >= 3

\* The source path of the returned transfer names no node (and is not the
\* root), and the destination is another path.
GhostSource ==
    /\ Did(Transfers)
    /\ Segments(call.args[1]) # <<>>
    /\ Denoted(call.before, call.args[1]) = nullptr
    /\ Segments(call.args[1]) # Segments(call.args[2])

\* C23: a cp or mv whose source path names no existing node, and whose
\* destination is a different path, fails and leaves the tree unchanged;
\* mv /ghost / and cp /ghost / do not report success.
C23_MissingSourceFails ==
    GhostSource => (~call.ret /\ Untouched)

\* C23 for every case but a source in the root with the root as destination.
C23_HoldsButRootChildToRoot ==
    ( /\ GhostSource
      /\ ~(Len(Segments(call.args[1])) = 1 /\ Segments(call.args[2]) = <<>>) )
    => (~call.ret /\ Untouched)

\* The number of arguments the argument-count contract asks of a command.
ArgumentsAsked(op) == IF op \in {"cp", "mv"} THEN 2 ELSE 1

\* C24: argument-count contract.  cp and mv are executed only with exactly
\* two arguments and md, mf, rm only with exactly one; on any other count
\* run() ends with CommandArgumentsError, no handler is called, and the tree
\* is exactly as it was before that command.
C24_ArgumentCountContract ==
    /\ Did(Handlers) => Len(call.args) = ArgumentsAsked(call.op)
    /\ call.out = "ArgumentsError"
       => /\ call.op \in Handlers
          /\ Len(call.args) # ArgumentsAsked(call.op)
          /\ ~call.ret /\ Untouched
          /\ pc = "done" /\ code = "CommandArgumentsError"
    /\ code = "CommandArgumentsError" => (pc = "done" /\ call.out = "ArgumentsError")

\* C24 witness: run() has ended with CommandArgumentsError on a cp with one
\* argument, after commands that made nodes, which are all there.
C24_Witness_CpWithOneArgument ==
    /\ pc = "done" /\ code = "CommandArgumentsError"
    /\ call.op = "cp" /\ Len(call.args) = 1
    /\ Cardinality(DOMAIN nodes) >= 3 /\ Untouched

\* The tree run() was left with is logged once, as its only rendering.
RenderedOnce == Len(output) = 1 /\ output[1] = printFileTree(nodes, m_fsRoot)

\* C25 as stated: every run renders the final tree exactly once before it
\* returns, whatever the run result, after the last applied command.
C25_RenderedOnceWhateverResult ==
    /\ pc # "done" => output = <<>>
    /\ pc = "done" => RenderedOnce

\* C25, amended: a run whose input could be opened renders the final tree
\* exactly once, when it returns and not before; after a command that
\* failed the rendering is the tree as it was before that command.  A run
\* that cannot open its input returns without rendering anything.
C25_RenderedOnceUnlessNotOpened ==
    /\ pc # "done" => output = <<>>
    /\ (pc = "done" /\ code # "CannotOpenDataStream") => RenderedOnce
    /\ (pc = "done" /\ code = "CannotOpenDataStream") => output = <<>>
    /\ (pc = "done" /\ failed /\ code # "CannotOpenDataStream")
       => output = <<printFileTree(call.before, m_fsRoot)>>

\* C25 witness: run() has ended with LogicError after commands that made
\* nodes, and the one rendering lists the root and those nodes.
C25_Witness_RenderedAfterFailure ==
    /\ pc = "done" /\ code = "LogicError"
    /\ Len(output) = 1 /\ Len(output[1]) >= 3
    /\ Len(output[1]) = Cardinality(DOMAIN nodes)

\* The rendering of the tree as it is.
Listing == printFileTree(nodes, m_fsRoot)

\* How deep below the root a line of a rendering is drawn: the prefixes of
\* the levels are "", "|_", "| |_", ...
Depth(l) == Len(l.prefix) \div 2

\* The last line before line i of the rendering L drawn at depth d.
LastAbove(L, i, d) == Max({j \in 1..(i - 1) : Depth(L[j]) = d})

\* The place in the tree line i of the rendering L stands for: the names of
\* the lines it hangs under, and its own.
PlaceOf(L, i) ==
    [d \in 1..Depth(L[i]) |->
        IF d = Depth(L[i]) THEN L[i].name ELSE L[LastAbove(L, i, d)].name]

Outcome(op, h, args) ==
    LET r == CASE op = "md" -> md(h, m_fsRoot, args[1])
               [] op = "mf" -> mf(h, m_fsRoot, args[1])
               [] op = "rm" -> rm(h, m_fsRoot, args[1])
               [] op = "cp" -> cp(h, m_fsRoot, args[1], args[2])
               [] op = "mv" -> mv(h, m_fsRoot, args[1], args[2])
    IN  [ret |-> r.ret, out |-> r.out, nodes |-> Renumber(r.nodes, m_fsRoot)]

\* The plain path that the spelled path q is a spelling of.
PlainOf(q) == CHOOSE p \in PlainPaths : q \in Spellings(p)

\* The arguments args with one of them written plainly.
OnePlain(args) ==
    { [args EXCEPT ![i] = PlainOf(args[i])] : i \in DOMAIN args }

\* The name of the spelled paths.
BlankInside == <<"a", Space, "a">>

\* C27: path spelling equivalence.  Paths that differ only in a missing
\* leading delimiter, in repeated delimiters, in whitespace-only pieces or in
\* whitespace around a piece are looked up with the same result, the root
\* for every spelling of the root, and every command returns the same and
\* leaves the same tree whichever of them it is called with: a call in any
\* spelling does what the same call does with either of its paths written
\* plainly.  Whitespace inside a name is kept, so every node made is named
\* "a a".
C27_SpellingsEquivalent ==
    /\ call.op = "none"
       => \A q \in SpelledPaths :
             /\ findNodeByPath(nodes, m_fsRoot, normalizePath(q))
                  = findNodeByPath(nodes, m_fsRoot, normalizePath(PlainOf(q)))
             /\ PlainOf(q) = <<pathDelimiter>>
                => findNodeByPath(nodes, m_fsRoot, normalizePath(q)) = Found(m_fsRoot)
    /\ Did(Handlers)
       => \A qs \in OnePlain(call.args) :
             Outcome(call.op, call.before, qs)
               = [ret |-> call.ret, out |-> call.out, nodes |-> nodes]
    /\ \A n \in DOMAIN nodes :
          /\ nodes[n].name \in {<<pathDelimiter>>, <<>>, BlankInside}
          /\ DOMAIN nodes[n].children \subseteq {<<>>, BlankInside}

\* C27 witness: a directory "a a" has just been made below the directory
\* "a a" of the root by a path written with blanks around every piece.
C27_Witness_MadeBySpelledPath ==
    /\ Did({"md"}) /\ call.out = "Created"
    /\ call.args[1] = <<Space, pathDelimiter, Space, "a", Space, "a", Space,
                         pathDelimiter, Space, "a", Space, "a", Space>>
    /\ NodeAt(call.before, m_fsRoot, <<BlankInside, BlankInside>>) = nullptr
    /\ IsDir(nodes, NodeAt(nodes, m_fsRoot, <<BlankInside, BlankInside>>))

\* The returned rm has done what is asked of it: a path that denoted a node
\* has made it return true and has taken away what the tree held at and
\* below that path and nothing else; a path that denoted no node has made
\* it return false and has changed nothing.
RemovedAsAsked ==
    LET y == Segments(call.args[1])
        n == NodeAt(call.before, m_fsRoot, y)
    IN  /\ n # nullptr
           => /\ call.ret
              /\ View(nodes, y) = {}
              /\ View(nodes, <<>>)
                   = {e \in View(call.before, <<>>) : ~IsPrefix(y, e[1])}
        /\ n = nullptr => (~call.ret /\ Untouched)

\* C28 as stated: rm P on an existing node removes that node together with
\* all of its descendants and leaves every other node unchanged; rm P on a
\* path that names no node fails and leaves the tree unchanged.
C28_RemovePostcondition == Did({"rm"}) => RemovedAsAsked

\* C28 for every path but those that denote the root.
C28_HoldsOffRoot ==
    (Did({"rm"}) /\ Segments(call.args[1]) # <<>>) => RemovedAsAsked

\* C28 off the root, reached: rm has removed a directory that held a node.
C28_RemovedWithDescendantReached ==
    /\ Did({"rm"}) /\ call.ret
    /\ Segments(call.args[1]) = <<<<"a">>>>
    /\ Cardinality(DOMAIN call.before) = Cardinality(DOMAIN nodes) + 2

\* rm "/" has removed a node, one that the path does not denote.
C28_RmRootRemovedAnotherNode ==
    /\ Did({"rm"}) /\ call.ret
    /\ Segments(call.args[1]) = <<>>
    /\ nodes # call.before

\* The ErrorCode values.
ErrorCodes ==
    {"NoError", "CannotOpenDataStream", "CommandParsingError",
     "CommandArgumentsError", "LogicError"}

\* run() has returned for a command it did not execute.
Rejected == call.out \in {"ParsingError", "ArgumentsError"}

ParentIsFile == IsFile(call.before, DestinationParent(call.before, call.args[1]))

\* C30: no file has children.  md and mf asked to make a node under a file
\* fail and change nothing; cp and mv whose destination path names an
\* existing file place nothing: the tree is as it was.
C30_FilesHaveNoChildren ==
    /\ \A n \in DOMAIN nodes :
          ~nodes[n].isDirectory => DOMAIN nodes[n].children = {}
    /\ (Did({"md", "mf"}) /\ ParentIsFile) => (~call.ret /\ Untouched)
    /\ (Did(Transfers) /\ DestinationIsFile)
       => (call.out \notin {"Moved", "Copied"} /\ Untouched)

\* C30 witness: cp or mv of an existing directory to a path that names an
\* existing file has failed because the destination is not a directory.
C30_Witness_TransferOntoFileFailed ==
    /\ Did(Transfers) /\ DestinationIsFile
    /\ IsDir(call.before, Denoted(call.before, call.args[1]))
    /\ ~call.ret /\ call.out = "DestinationNotADirectory"

\* String s is a proper prefix of string t.
ProperPrefix(s, t) == IsPrefix(s, t) /\ s # t

\* The source's last name only begins the destination's name at that place:
\* the names before it are the same, and the destination has another name
\* there, of which the source's is a proper string prefix.
PrefixOnly ==
    LET x == Segments(call.args[1])
        y == Segments(call.args[2])
    IN  /\ x # <<>> /\ Len(y) >= Len(x)
        /\ Sub(y, 1, Len(x) - 1) = Sub(x, 1, Len(x) - 1)
        /\ ProperPrefix(x[Len(x)], y[Len(x)])

\* C31: the self-containment check has no false positives from name
\* prefixes.  A transfer whose source's last name is only a string prefix of
\* the destination's name at that place is not rejected as a transfer into
\* the source's own subdirectory; it goes on to the lookups, and when the
\* source is an existing directory, the destination's parent an existing
\* directory and the destination's name free there, it is performed and the
\* destination path then denotes a directory.
C31_NoFalsePositiveFromNamePrefix ==
    (Did(Transfers) /\ PrefixOnly)
    => /\ call.out # "OwnSubdirectory"
       /\ ( /\ IsDir(call.before, Denoted(call.before, call.args[1]))
            /\ IsDir(call.before, DestinationParent(call.before, call.args[2]))
            /\ Denoted(call.before, call.args[2]) = nullptr )
          => /\ call.ret /\ call.out \in {"Moved", "Copied"}
             /\ IsDir(nodes, Denoted(nodes, call.args[2]))

\* C31 witness: mv /a /aa/a, with the directories a and aa in the root, has
\* moved a into aa.
C31_Witness_MovedIntoLongerName ==
    /\ Did({"mv"}) /\ PrefixOnly
    /\ call.args = << <<"/", "a">>, <<"/", "a", "a", "/", "a">> >>
    /\ call.ret /\ call.out = "Moved"
    /\ Denoted(nodes, call.args[1]) = nullptr
    /\ IsDir(nodes, Denoted(nodes, call.args[2]))

\* The objects of heap h that the root owns, itself included.
Reachable(h) == Owned(h, {m_fsRoot}) \cap DOMAIN h

\* The objects that object n of heap h holds as children.
Kids(h, n) == {h[n].children[k] : k \in DOMAIN h[n].children}

\* Heap h is a tree rooted at the root object: every live object is owned
\* by the root, every one but the root is held at exactly one place, the
\* root at none, and no object is below itself.
WellFormed(h) ==
    /\ DOMAIN h = Reachable(h)
    /\ \A n \in DOMAIN h :
          /\ Cardinality(HeldAt(h, n)) = IF n = m_fsRoot THEN 0 ELSE 1
          /\ n \notin Owned(h, Kids(h, n))

\* The returned call has kept the number of reachable nodes as asked: a mv
\* that returned true has left it as it was, and only rm has made it less.
CountKept ==
    /\ (call.op = "mv" /\ call.ret)
       => Cardinality(Reachable(nodes)) = Cardinality(Reachable(call.before))
    /\ Cardinality(Reachable(nodes)) < Cardinality(Reachable(call.before))
       => call.op = "rm"

\* C32 as stated: after any sequence of commands the node graph is a tree
\* rooted at "/" (every live node reachable from the root by exactly one
\* path, no directory its own ancestor), every successful mv leaves the
\* number of nodes reachable from the root unchanged, and only rm ever
\* decreases it.
C32_TreePreserved ==
    /\ WellFormed(nodes)
    /\ Did(Handlers) => CountKept

\* C32 for every command but a mv whose destination is at or below its
\* source: called on a tree, it leaves a tree and keeps the count as asked.
C32_HoldsButMoveBelowSource ==
    ( /\ Did(Handlers) /\ WellFormed(call.before)
      /\ ~( /\ call.op = "mv"
            /\ IsPrefix(Segments(call.args[1]), Segments(call.args[2])) ) )
    => (WellFormed(nodes) /\ CountKept)

\* C32 but for such a mv, reached: a mv has moved a directory with a node
\* in it, and the tree has as many nodes as before.
C32_MovedSubtreeReached ==
    /\ Did({"mv"}) /\ call.out = "Moved" /\ WellFormed(nodes)
    /\ Cardinality(DOMAIN nodes) >= 4
    /\ Cardinality(Reachable(nodes)) = Cardinality(Reachable(call.before))
    /\ ~IsPrefix(Segments(call.args[1]), Segments(call.args[2]))
    /\ Cardinality(View(call.before, Segments(call.args[1]))) >= 2

\* C33: the name stored in every node that an object holds equals the key
\* under which it is held, so the name printed for a node is the name by
\* which it is resolved; this holds after mv and cp with a new name and for
\* every node below a copied one.
C33_NameIsKey ==
    \A n \in DOMAIN nodes : \A k \in DOMAIN nodes[n].children :
        /\ nodes[n].children[k] \in DOMAIN nodes
        /\ nodes[nodes[n].children[k]].name = k

\* C33 witness: cp a /b.t has copied the directory a, which holds a node
\* b.t, under the new name b.t; the copy and the node below it are stored
\* under their names.
C33_Witness_CopiedUnderNewName ==
    /\ Did({"cp"}) /\ call.out = "Copied"
    /\ call.args = << <<"a">>, <<"/", "b", ".", "t">> >>
    /\ LET copied == NodeAt(nodes, m_fsRoot, << <<"b", ".", "t">> >>)
           below  == NodeAt(nodes, m_fsRoot, << <<"b", ".", "t">>, <<"b", ".", "t">> >>)
       IN  /\ copied \in DOMAIN nodes /\ nodes[copied].name = <<"b", ".", "t">>
           /\ below \in DOMAIN nodes /\ nodes[below].name = <<"b", ".", "t">>
           /\ NodeAt(call.before, m_fsRoot, << <<"b", ".", "t">> >>) = nullptr

\* String s has nothing but blanks in it (it may be empty).
Blank(s) == \A i \in 1..Len(s) : s[i] = Space

\* String s has a blank at neither end.
Unpadded(s) == s # <<>> /\ s[1] # Space /\ s[Len(s)] # Space

\* The text of the raw path p after its last delimiter, all of p if it has
\* no delimiter.
AfterLastDelimiter(p) ==
    IF Positions(p, pathDelimiter) = {} THEN p
    ELSE Sub(p, Max(Positions(p, pathDelimiter)) + 1, Len(p))

\* String r begins with the delimiter and every segment of it, the text
\* between two delimiters or after the last one, is non-empty and unpadded;
\* after the last delimiter there may be nothing.
WellSegmented(r) ==
    LET ps == Pieces(r)
    IN  /\ r # <<>> /\ r[1] = pathDelimiter
        /\ \A i \in 2..(Len(ps) - 1) : Unpadded(ps[i])
        /\ ps[Len(ps)] = <<>> \/ Unpadded(ps[Len(ps)])

\* String r ends with a delimiter.
TrailingDelimiter(r) == r # <<>> /\ r[Len(r)] = pathDelimiter

\* C34 as stated: normalizePath returns, for every string, a string that
\* begins with the delimiter, has no empty or whitespace-padded segment, and
\* ends with a trailing delimiter if and only if the raw path contained a
\* delimiter and its text after the last delimiter is empty or
\* whitespace-only; normalizing the result again returns it unchanged.
C34_NormalizeTotalIdempotent ==
    /\ pc = "normalized"
       => /\ WellSegmented(call.out)
          /\ TrailingDelimiter(call.out)
             <=> ( /\ Positions(call.args[1], pathDelimiter) # {}
                   /\ Blank(AfterLastDelimiter(call.args[1])) )
    /\ pc = "renormalized" => call.out = call.args[1]

\* C34, amended: as stated, but the result ends with a delimiter if and only
\* if the raw text after the last delimiter is empty or whitespace-only,
\* whether or not the raw path contained a delimiter: an empty or
\* whitespace-only raw path gives "/".
C34_NormalizeBlankGivesRoot ==
    /\ pc = "normalized"
       => /\ WellSegmented(call.out)
          /\ TrailingDelimiter(call.out) <=> Blank(AfterLastDelimiter(call.args[1]))
          /\ Blank(call.args[1]) => call.out = <<pathDelimiter>>
    /\ pc = "renormalized" => call.out = call.args[1]

\* C34 witness: "a / " has been normalized to "/a/".
C34_Witness_TrailingKept ==
    /\ pc = "normalized"
    /\ call.args[1] = <<"a", Space, pathDelimiter, Space>>
    /\ call.out = <<pathDelimiter, "a", pathDelimiter>>

\* C34, reached: "/a/" has been normalized again and is unchanged.
C34_RenormalizedReached ==
    /\ pc = "renormalized"
    /\ call.args[1] = <<pathDelimiter, "a", pathDelimiter>>
    /\ call.out = call.args[1]

====
